---- MODULE Spec2Model ----
(***************************************************************************)
(* Spring Hotel: reservation lifecycle, cart, pricing and the row-level    *)
(* policies of the backing store.                                          *)
(*                                                                         *)
(* The persistence layer (tables rooms, reservations, user_roles and their *)
(* row-level policies) is shared by all users.  Every user has one browser *)
(* tab: the page that is mounted in it, the React state of that page and   *)
(* the tab's localStorage.  Instants are milliseconds, as in Date.         *)
(***************************************************************************)
EXTENDS Integers, Sequences, FiniteSets, TLC

(***************************************************************************)
(* Bounds of the model.                                                    *)
(***************************************************************************)
MaxDay == 2            \* calendar days 0..MaxDay can be picked; the clock stops at MaxDay
MaxCart == 2           \* entries a cart can hold
MaxReservations == 1   \* rows the reservations table can hold
MaxOverlapping == 2    \* rows it can hold where reservations of one room are compared
MaxEvents == 2         \* auth state changes awaiting delivery to one listener

Users == {"u1", "u2", "u3"}
RoomIds == {"r1", "r2"}
Days == 0..MaxDay

(***************************************************************************)
(* Dates.                                                                  *)
(***************************************************************************)
MS_PER_HOUR == 1000 * 60 * 60
MS_PER_DAY == 1000 * 60 * 60 * 24

\* The browser's zone: UTC-4 in summer time, UTC-5 from the day the clocks
\* go back (the last day of the calendar window).
DstEndDay == MaxDay
TzOffsetMs(d) == IF d < DstEndDay THEN 4 * MS_PER_HOUR ELSE 5 * MS_PER_HOUR

\* The Date the calendar hands to onSelect for day d: local midnight.
LocalMidnight(d) == d * MS_PER_DAY + TzOffsetMs(d)

\* format(date, "yyyy-MM-dd"): the local calendar day of an instant.
FormatDate(t) == CHOOSE d \in Days : LocalMidnight(d) <= t /\ (d = MaxDay \/ t < LocalMidnight(d + 1))

\* new Date("yyyy-MM-dd"): a date-only string is read as midnight UTC.
ParseDate(d) == d * MS_PER_DAY

NoDate == -1           \* useState<Date>() : undefined

\* Math.ceil(a / b) for b > 0 (\div rounds down)
MathCeilDiv(a, b) == IF a % b = 0 THEN a \div b ELSE (a \div b) + 1


(***************************************************************************)
(* Inputs.                                                                 *)
(***************************************************************************)
\* What the admin room editor is filled in with (capacity, price, status).
RoomInputs ==
    { [capacity |-> 2, price |-> 100, status |-> "available"],
      [capacity |-> 1, price |-> 150, status |-> "available"],
      [capacity |-> 2, price |-> 100, status |-> "maintenance"] }

\* What is typed in the guests field.
GuestsTexts == {"", "2", "3"}

\* Guest contact records that pass guestSchema.
GuestDataValues == {"guest"}

ReservationStatuses == {"pending", "confirmed", "cancelled", "completed"}
AppRoles == {"cliente", "admin"}

\* parseInt(text): <<>> is NaN, <<n>> the number n.
ParseInt(text) ==
    CASE text = "2" -> <<2>>
      [] text = "3" -> <<3>>
      [] text = "0" -> <<0>>
      [] text = "-1" -> <<-1>>
      [] OTHER -> <<>>

\* parseInt(e.target.value) || 1 : NaN and 0 are falsy.
GuestsFromInput(text) ==
    LET n == ParseInt(text) IN IF n = <<>> \/ n = <<0>> THEN 1 ELSE n[1]

\* parseFloat(text) for the texts typed as a price.
ParseFloat(text) ==
    CASE text = "100" -> <<100>>
      [] text = "0" -> <<0>>
      [] text = "-50" -> <<-50>>
      [] OTHER -> <<>>

\* What can be typed in the editor's capacity and price fields
\* (type="number", required): any number.
CapacityTexts == {"2", "0", "-1"}
PriceTexts == {"100", "-50"}

\* formData after the fields' onChange handlers.
TypedRoomInputs ==
    { [capacity |-> ParseInt(c)[1], price |-> ParseFloat(p)[1], status |-> "available"] :
        c \in CapacityTexts, p \in PriceTexts }

(***************************************************************************)
(* State.                                                                  *)
(***************************************************************************)
VARIABLES
    now,              \* the clock: new Date()
    tblRooms,         \* table public.rooms: set of rows, one per id
    tblReservations,  \* table public.reservations: row i has id i
    tblUserRoles,     \* table public.user_roles: set of rows (user_id, role)
    loc,              \* loc[u]: the page mounted in u's tab
    isAdmin,          \* isAdmin[u]: useUserRole(user.id).isAdmin of the mounted page
    rooms,            \* rooms[u]: `rooms` state of Rooms / AdminRooms (rows fetched at mount)
    selectedRooms,    \* selectedRooms[u]: `selectedRooms` state of Rooms
    localStorage,     \* localStorage[u]: items selectedRooms and currentReservation
    form,             \* form[u]: state of Reservation (rooms, checkIn, checkOut, guests, submitting),
                      \* `disabled` as the button is rendered, the insert requests awaited
    reservations,     \* reservations[u]: `reservations` state of MyReservations / AdminReservations
    roleCall,         \* roleCall[u]: updateUserRole between its delete and its insert
    authUsers,        \* auth.users: the ids that have signed up
    roleHook,         \* roleHook[u]: the useUserRole hook mounted in u's tab
    tab,              \* tab[u]: a tab of u's browser opened on an admin address: its route,
                      \* the browser's session, useAuth's state, the guard's timer
    lastOp            \* the last handler run: who, what, its notification

vars == <<now, tblRooms, tblReservations, tblUserRoles, loc, isAdmin, rooms,
          selectedRooms, localStorage, form, reservations, roleCall, authUsers,
          roleHook, tab, lastOp>>

dbVars == <<tblRooms, tblReservations, tblUserRoles>>
pageVars == <<loc, isAdmin, rooms, selectedRooms, form, reservations>>

Pages == {"dashboard", "rooms", "reservation", "confirmation", "my-reservations",
          "admin/rooms", "admin/reservations", "admin/users"}

\* State of a Reservation page that is not mounted, and right after mounting.
EmptyForm == [rooms |-> <<>>, checkIn |-> NoDate, checkOut |-> NoDate,
              guests |-> 1, submitting |-> FALSE, disabled |-> FALSE, insert |-> <<>>]

EmptyStorage == [selectedRooms |-> <<>>, currentReservation |-> <<>>]

\* What a handler leaves behind: its notification (toast), whether it sent a
\* request to the store, the reservation id or number it is about, and in
\* `room` the record it was called with (handleAddRoom's room, the row of an
\* insert request).
Op(name, caller, toast, sent, arg) ==
    [op |-> name, caller |-> caller, toast |-> toast, sent |-> sent, arg |-> arg,
     room |-> <<>>]

\* Steps that notify nothing and send nothing (navigation, typing, the clock).
NoOp == Op("", "", "", FALSE, 0)

\* useUserRole as mounted: useState(null), useState(true), no effect run yet.
\* role <<>> is null; pending are the user ids whose lookup is awaited.
NewRoleHook ==
    [userId |-> <<>>, ran |-> FALSE, role |-> <<>>, loading |-> TRUE, pending |-> {}]

\* The pages behind the admin guard, and those whose guard waits 500 ms.
AdminPages == {"admin", "admin/rooms", "admin/reservations", "admin/users"}
TimerPages == {"admin", "admin/reservations"}

\* A tab whose route is `page`, with no admin page mounted; client is the
\* session the browser's supabase client holds (<<>>: signed out).  Mounted,
\* user and loading are useAuth's state, getSession the progress of its
\* getSession() call ("called", "read" with the result in session, "done"),
\* events the auth state changes not yet delivered to its listener, timer
\* the guard's setTimeout with the user and isAdmin of its closure.
ClosedTab(page, client) ==
    [page |-> page, client |-> client, user |-> <<>>, loading |-> TRUE,
     getSession |-> "none", session |-> <<>>, events |-> <<>>, timer |-> <<>>]

Init ==
    /\ now = 0
    /\ tblRooms = {}
    /\ tblReservations = <<>>
    /\ tblUserRoles = { [user_id |-> "u1", role |-> "admin"],
                        [user_id |-> "u2", role |-> "cliente"] }
    /\ loc = [u \in Users |-> "dashboard"]
    /\ isAdmin = [u \in Users |-> FALSE]
    /\ rooms = [u \in Users |-> {}]
    /\ selectedRooms = [u \in Users |-> <<>>]
    /\ localStorage = [u \in Users |-> EmptyStorage]
    /\ form = [u \in Users |-> EmptyForm]
    /\ reservations = [u \in Users |-> {}]
    /\ roleCall = [u \in Users |-> <<>>]
    /\ authUsers = {"u1", "u2"}
    /\ roleHook = [u \in Users |-> NewRoleHook]
    /\ tab = [u \in Users |-> ClosedTab("closed", <<>>)]
    /\ lastOp = NoOp

(***************************************************************************)
(* Row-level policies (migration).                                         *)
(***************************************************************************)
\* public.has_role(_user_id, _role)
has_role(uid, role) == [user_id |-> uid, role |-> role] \in tblUserRoles

\* "Anyone authenticated can view rooms": USING (true)
RoomsVisible(uid) == tblRooms

\* Policies on rooms that would let every caller write (not the code's).
RoomsWritableByAll(uid) == TRUE

\* "Admins can insert/update/delete rooms"
RoomsWritable(uid) == has_role(uid, "admin")

\* A SELECT policy that would show every row to everyone (not the code's).
ReservationSelectableByAll(uid, row) == TRUE

\* "Users can view own reservations"
ReservationSelectable(uid, row) == uid = row.user_id \/ has_role(uid, "admin")

\* An INSERT policy that would accept any owner (not the code's).
ReservationInsertableForAnyone(uid, row) == TRUE

\* "Users can create reservations": WITH CHECK (auth.uid() = user_id)
ReservationInsertable(uid, row) == uid = row.user_id

\* "Users can update own reservations"
ReservationUpdatable(uid, row) == uid = row.user_id \/ has_role(uid, "admin")

\* A policy on user_roles that would let every caller write (not the code's).
RolesWritableByAll(uid) == TRUE

\* "Admins can manage roles": FOR ALL
RolesWritable(uid) == has_role(uid, "admin")


(***************************************************************************)
(* Helpers shared by the pages.                                            *)
(***************************************************************************)
\* .single(): the row when the request went through and exactly one row
\* matched, otherwise an error (<<>>).
Single(found, netOk) ==
    IF netOk /\ Cardinality(found) = 1 THEN <<CHOOSE r \in found : TRUE>> ELSE <<>>

\* A lookup that would take a role from several rows, admin first (not the
\* code's).
RoleOfLookupAnyRow(found, netOk) ==
    IF netOk /\ \E r \in found : r.role = "admin" THEN "admin" ELSE "cliente"

\* The role fetchRole sets: data.role, or 'cliente' in its catch.
RoleOfLookup(found, netOk) ==
    LET data == Single(found, netOk)
    IN  IF data = <<>> THEN "cliente" ELSE data[1].role

\* useUserRole.fetchRole: .single() wants exactly one row; no row, several
\* rows or an error end in the catch, which sets 'cliente'.
FetchRole(uid) == RoleOfLookup({r \in tblUserRoles : r.user_id = uid}, TRUE)

\* No request of u's tab is awaiting its answer.
Idle(u) == ~form[u].submitting /\ roleCall[u] = <<>>

\* The page `page` is mounted in u's tab with this component state; the
\* state of the page that was mounted before is gone.
SetPage(u, page, adm, rms, sel, frm, res) ==
    /\ loc' = [loc EXCEPT ![u] = page]
    /\ isAdmin' = [isAdmin EXCEPT ![u] = adm]
    /\ rooms' = [rooms EXCEPT ![u] = rms]
    /\ selectedRooms' = [selectedRooms EXCEPT ![u] = sel]
    /\ form' = [form EXCEPT ![u] = frm]
    /\ reservations' = [reservations EXCEPT ![u] = res]

\* supabase.from("reservations").select("*") as seen by uid.
FetchedReservations(uid, tbl) ==
    { [id |-> i, user_id |-> tbl[i].user_id, status |-> tbl[i].status,
       check_in |-> tbl[i].check_in] :
          i \in { j \in 1..Len(tbl) : ReservationSelectable(uid, tbl[j]) } }

\* A patch that would also reset the price (not the code's).
StatusPatchResettingPrice(row, newStatus) ==
    [row EXCEPT !.status = newStatus, !.total_price = 0]

\* .update({ status }).eq("id", rid) by uid: rows the policy hides are skipped
\* without an error.
StatusPatch(row, newStatus) == [row EXCEPT !.status = newStatus]

UpdatedReservations(uid, rid, newStatus) ==
    [i \in 1..Len(tblReservations) |->
        IF i = rid /\ ReservationUpdatable(uid, tblReservations[i])
        THEN StatusPatch(tblReservations[i], newStatus)
        ELSE tblReservations[i]]

(***************************************************************************)
(* The clock.                                                              *)
(***************************************************************************)
Tick ==
    /\ now < MaxDay * MS_PER_DAY
    /\ now' = now + MS_PER_DAY
    /\ lastOp' = NoOp
    /\ UNCHANGED <<tab, authUsers, roleHook, dbVars, pageVars, localStorage, roleCall>>

(***************************************************************************)
(* Rooms page (customer catalogue and cart).                               *)
(***************************************************************************)
\* loadSelectedRooms: the saved cart, when there is one.
LoadSelectedRooms(u) ==
    LET saved == localStorage[u].selectedRooms
    IN  IF saved # <<>> THEN saved[1] ELSE <<>>

\* Mount of Rooms: fetchRooms and loadSelectedRooms.
OpenRooms(u) ==
    /\ Idle(u)
    /\ SetPage(u, "rooms", FALSE, RoomsVisible(u), LoadSelectedRooms(u), EmptyForm, {})
    /\ lastOp' = NoOp
    /\ UNCHANGED <<tab, authUsers, roleHook, now, dbVars, localStorage, roleCall>>

\* A cart that would keep one entry per room id (not the code's).
AddedRoomOncePerId(sel, room) ==
    IF \E i \in 1..Len(sel) : sel[i].id = room.id THEN sel ELSE Append(sel, room)

\* [...selectedRooms, room]
AddedRoom(sel, room) == Append(sel, room)

\* handleAddRoom(room), for any room the page lists.  (The card's button is
\* also disabled when the room is not available.)
HandleAddRoom(u, room) ==
    /\ loc[u] = "rooms"
    /\ room \in rooms[u]
    /\ IF room.status # "available"
       THEN /\ lastOp' = [Op("handleAddRoom", u, "Esta habitacion no esta disponible", FALSE, 0)
                            EXCEPT !.room = <<room>>]
            /\ UNCHANGED <<selectedRooms, localStorage>>
       ELSE /\ Len(selectedRooms[u]) < MaxCart
            /\ LET newSelectedRooms == AddedRoom(selectedRooms[u], room)
               IN  /\ selectedRooms' = [selectedRooms EXCEPT ![u] = newSelectedRooms]
                   /\ localStorage' = [localStorage EXCEPT ![u].selectedRooms = <<newSelectedRooms>>]
            /\ lastOp' = [Op("handleAddRoom", u, "agregada a su reserva", FALSE, 0)
                            EXCEPT !.room = <<room>>]
    /\ UNCHANGED <<tab, authUsers, roleHook, now, dbVars, loc, isAdmin, rooms, form, reservations, roleCall>>

\* A removal by room id: every entry with the id of the entry at the index
\* goes (not the code's).
RemovedRoomById(sel, roomId) ==
    IF roomId + 1 \in 1..Len(sel)
    THEN SelectSeq(sel, LAMBDA r : r.id # sel[roomId + 1].id)
    ELSE sel

\* selectedRooms.filter((r, idx) => idx !== roomId), idx counted from 0
RemovedRoom(sel, roomId) ==
    LET keep == { i \in 1..Len(sel) : i - 1 # roomId }
        F[i \in 0..Len(sel)] ==
            IF i = 0 THEN <<>>
            ELSE IF i \in keep THEN Append(F[i - 1], sel[i]) ELSE F[i - 1]
    IN  F[Len(sel)]

\* handleRemoveRoom(index)
HandleRemoveRoom(u, roomId) ==
    /\ loc[u] = "rooms"
    /\ LET newSelectedRooms == RemovedRoom(selectedRooms[u], roomId)
       IN  /\ selectedRooms' = [selectedRooms EXCEPT ![u] = newSelectedRooms]
           /\ localStorage' = [localStorage EXCEPT ![u].selectedRooms = <<newSelectedRooms>>]
    /\ lastOp' = Op("handleRemoveRoom", u, "Habitacion eliminada de su reserva", FALSE, roomId)
    /\ UNCHANGED <<tab, authUsers, roleHook, now, dbVars, loc, isAdmin, rooms, form, reservations, roleCall>>


(***************************************************************************)
(* Reservation page (booking form).                                        *)
(***************************************************************************)
\* Mount effect of Reservation: without a saved, non-empty cart the page
\* sends the user back to /rooms; otherwise the cart becomes `rooms`.
ReservationMount(u) ==
    LET saved == localStorage[u].selectedRooms
    IN  IF saved = <<>> \/ saved[1] = <<>>
        THEN /\ SetPage(u, "rooms", FALSE, RoomsVisible(u), LoadSelectedRooms(u), EmptyForm, {})
             /\ lastOp' = Op("Reservation", u, "No se ha seleccionado ninguna habitacion", FALSE, 0)
        ELSE /\ SetPage(u, "reservation", FALSE, {}, <<>>, [EmptyForm EXCEPT !.rooms = saved[1]], {})
             /\ lastOp' = NoOp

\* The address /reservation is opened.
OpenReservation(u) ==
    /\ Idle(u)
    /\ ReservationMount(u)
    /\ UNCHANGED <<tab, authUsers, roleHook, now, dbVars, localStorage, roleCall>>

\* handleGoToReservation ("Continuar con reserva")
HandleGoToReservation(u) ==
    /\ loc[u] = "rooms"
    /\ IF Len(selectedRooms[u]) = 0
       THEN /\ lastOp' = Op("handleGoToReservation", u, "Debe seleccionar al menos una habitacion", FALSE, 0)
            /\ UNCHANGED pageVars
       ELSE ReservationMount(u)
    /\ UNCHANGED <<tab, authUsers, roleHook, now, dbVars, localStorage, roleCall>>

\* Calendar of "Fecha de entrada": days before now are disabled.
SetCheckIn(u, d) ==
    /\ loc[u] = "reservation"
    /\ ~form[u].submitting
    /\ ~(LocalMidnight(d) < now)
    /\ form' = [form EXCEPT ![u].checkIn = LocalMidnight(d)]
    /\ lastOp' = NoOp
    /\ UNCHANGED <<tab, authUsers, roleHook, now, dbVars, loc, isAdmin, rooms, selectedRooms, reservations, localStorage, roleCall>>

\* Calendar of "Fecha de salida": days up to checkIn (or now) are disabled.
SetCheckOut(u, d) ==
    /\ loc[u] = "reservation"
    /\ ~form[u].submitting
    /\ ~(LocalMidnight(d) <= (IF form[u].checkIn # NoDate THEN form[u].checkIn ELSE now))
    /\ form' = [form EXCEPT ![u].checkOut = LocalMidnight(d)]
    /\ lastOp' = NoOp
    /\ UNCHANGED <<tab, authUsers, roleHook, now, dbVars, loc, isAdmin, rooms, selectedRooms, reservations, localStorage, roleCall>>

\* onChange of the guests field
SetGuests(u, text) ==
    /\ loc[u] = "reservation"
    /\ ~form[u].submitting
    /\ form' = [form EXCEPT ![u].guests = GuestsFromInput(text)]
    /\ lastOp' = NoOp
    /\ UNCHANGED <<tab, authUsers, roleHook, now, dbVars, loc, isAdmin, rooms, selectedRooms, reservations, localStorage, roleCall>>

\* rooms.reduce((sum, room) => sum + room.price, 0)
RECURSIVE TotalRate(_)
TotalRate(rs) == IF rs = <<>> THEN 0 ELSE rs[1].price + TotalRate(Tail(rs))

\* A capacity that would count each room id once (not the code's).
CapacityOncePerId(rs) ==
    LET S[i \in 0..Len(rs)] ==
            IF i = 0 THEN 0
            ELSE IF \E j \in 1..(i - 1) : rs[j].id = rs[i].id THEN S[i - 1]
            ELSE S[i - 1] + rs[i].capacity
    IN  S[Len(rs)]

\* getTotalCapacity
RECURSIVE getTotalCapacity(_)
getTotalCapacity(rs) == IF rs = <<>> THEN 0 ELSE rs[1].capacity + getTotalCapacity(Tail(rs))

\* Nights rounded down (not the code's).
NightsFloor(checkIn, checkOut) == (checkOut - checkIn) \div MS_PER_DAY

\* Math.ceil((checkOut.getTime() - checkIn.getTime()) / (1000 * 60 * 60 * 24))
Nights(checkIn, checkOut) == MathCeilDiv(checkOut - checkIn, MS_PER_DAY)

\* calculateTotal
calculateTotal(f) ==
    IF f.checkIn = NoDate \/ f.checkOut = NoDate \/ Len(f.rooms) = 0
    THEN 0
    ELSE Nights(f.checkIn, f.checkOut) * TotalRate(f.rooms)

\* The row onSubmit sends to insert.
InsertedRow(u, f, guestData) ==
    [user_id |-> u,
     room_ids |-> [i \in 1..Len(f.rooms) |-> f.rooms[i].id],
     check_in |-> FormatDate(f.checkIn),
     check_out |-> FormatDate(f.checkOut),
     guests |-> f.guests,
     total_price |-> calculateTotal(f),
     guest_data |-> guestData,
     status |-> "pending"]

\* A validation that would let checkOut = checkIn through (not the code's).
SubmitRejectionStrictlyBefore(f) ==
    IF f.checkIn = NoDate \/ f.checkOut = NoDate
    THEN "Por favor, seleccione las fechas de su estadia"
    ELSE IF f.checkOut < f.checkIn
    THEN "La fecha de salida debe ser posterior a la fecha de entrada"
    ELSE IF f.guests > getTotalCapacity(f.rooms)
    THEN "Las habitaciones seleccionadas tienen capacidad para N personas maximo"
    ELSE ""

\* The checks of onSubmit before the insert: the notification of the first
\* one that fails, "" when all pass.
SubmitRejection(f) ==
    IF f.checkIn = NoDate \/ f.checkOut = NoDate
    THEN "Por favor, seleccione las fechas de su estadia"
    ELSE IF f.checkOut <= f.checkIn
    THEN "La fecha de salida debe ser posterior a la fecha de entrada"
    ELSE IF f.guests > getTotalCapacity(f.rooms)
    THEN "Las habitaciones seleccionadas tienen capacidad para N personas maximo"
    ELSE ""

\* The number the capacity notification shows: ${getTotalCapacity()}.
RejectionArg(f) ==
    IF f.checkIn # NoDate /\ f.checkOut # NoDate /\ f.checkOut > f.checkIn
    THEN getTotalCapacity(f.rooms)
    ELSE 0

\* The insert requests of onSubmit not yet answered.
InFlight == Cardinality({ p \in Users \X (1..MaxOverlapping) : p[2] <= Len(form[p[1]].insert) })

\* An onSubmit that would refuse a request when a stored reservation has one
\* of its rooms on overlapping days (not the code's).
OnSubmitWithinRefusingOverlap(u, guestData, max) ==
    /\ loc[u] = "reservation"
    /\ ~form[u].submitting
    /\ Len(tblReservations) + InFlight < max
    /\ LET f == form[u]
           rejection == SubmitRejection(f)
           taken == rejection = "" /\
                    \E i \in 1..Len(tblReservations), k \in 1..Len(f.rooms) :
                       /\ \E j \in 1..Len(tblReservations[i].room_ids) :
                             tblReservations[i].room_ids[j] = f.rooms[k].id
                       /\ tblReservations[i].check_in < FormatDate(f.checkOut)
                       /\ FormatDate(f.checkIn) < tblReservations[i].check_out
       IN  IF rejection # "" \/ taken
           THEN /\ lastOp' = Op("onSubmit", u, IF taken THEN "Habitacion no disponible" ELSE rejection,
                                FALSE, RejectionArg(f))
                /\ UNCHANGED form
           ELSE /\ form' = [form EXCEPT ![u].submitting = TRUE,
                                        ![u].insert = <<InsertedRow(u, f, guestData)>>]
                /\ lastOp' = Op("onSubmit", u, "", TRUE, 0)
    /\ UNCHANGED <<tab, authUsers, roleHook, now, dbVars, loc, isAdmin, rooms, selectedRooms, reservations, localStorage, roleCall>>

\* onSubmit up to its await: validation, setSubmitting(true), the insert is
\* sent.  max bounds the rows the table and the requests awaited add up to.
OnSubmitWithin(u, guestData, max) ==
    /\ loc[u] = "reservation"
    /\ ~form[u].submitting
    /\ Len(tblReservations) + InFlight < max
    /\ LET f == form[u]
           rejection == SubmitRejection(f)
       IN  IF rejection # ""
           THEN /\ lastOp' = Op("onSubmit", u, rejection, FALSE, RejectionArg(f))
                /\ UNCHANGED form
           ELSE /\ form' = [form EXCEPT ![u].submitting = TRUE,
                                        ![u].insert = <<InsertedRow(u, f, guestData)>>]
                /\ lastOp' = Op("onSubmit", u, "", TRUE, 0)
    /\ UNCHANGED <<tab, authUsers, roleHook, now, dbVars, loc, isAdmin, rooms, selectedRooms, reservations, localStorage, roleCall>>

OnSubmit(u, guestData) == OnSubmitWithin(u, guestData, MaxReservations)

\* An onSubmit that would clear the cart before looking at the answer (not
\* the code's).
OnSubmitAnswerClearingFirst(u, dbOk) ==
    /\ form[u].submitting
    /\ LET row == form[u].insert[1]
           id == Len(tblReservations) + 1
       IN  IF dbOk /\ ReservationInsertable(u, row)
           THEN /\ tblReservations' = Append(tblReservations, row)
                /\ localStorage' = [localStorage EXCEPT
                        ![u] = [selectedRooms |-> <<>>,
                                currentReservation |-> <<[id |-> id, total |-> calculateTotal(form[u])]>>]]
                /\ SetPage(u, "confirmation", FALSE, {}, <<>>, EmptyForm, {})
                /\ lastOp' = Op("onSubmit", u, "Reserva creada exitosamente", TRUE, id)
           ELSE /\ form' = [form EXCEPT ![u].submitting = FALSE, ![u].insert = <<>>]
                /\ localStorage' = [localStorage EXCEPT ![u].selectedRooms = <<>>]
                /\ lastOp' = Op("onSubmit", u, "Error al crear la reserva", TRUE, 0)
                /\ UNCHANGED <<tblReservations, loc, isAdmin, rooms, selectedRooms, reservations>>
    /\ UNCHANGED <<tab, authUsers, roleHook, now, tblRooms, tblUserRoles, roleCall>>

\* onSubmit after its await: the insert awaited longest is answered.  The
\* continuation runs with the values of its call, whether or not the page
\* is still mounted.
OnSubmitAnswer(u, dbOk) ==
    /\ form[u].insert # <<>>
    /\ LET row == Head(form[u].insert)
           id == Len(tblReservations) + 1
       IN  IF dbOk /\ ReservationInsertable(u, row)
           THEN /\ tblReservations' = Append(tblReservations, row)
                /\ localStorage' = [localStorage EXCEPT
                        ![u] = [selectedRooms |-> <<>>,
                                currentReservation |-> <<[id |-> id, total |-> row.total_price]>>]]
                /\ SetPage(u, "confirmation", FALSE, {}, <<>>,
                           [EmptyForm EXCEPT !.insert = Tail(form[u].insert)], {})
                /\ lastOp' = Op("onSubmit", u, "Reserva creada exitosamente", TRUE, id)
           ELSE /\ form' = [form EXCEPT ![u].submitting = FALSE, ![u].disabled = FALSE,
                                        ![u].insert = Tail(@)]
                /\ lastOp' = Op("onSubmit", u, "Error al crear la reserva", TRUE, 0)
                /\ UNCHANGED <<tblReservations, localStorage, loc, isAdmin, rooms,
                               selectedRooms, reservations>>
    /\ UNCHANGED <<tab, authUsers, roleHook, now, tblRooms, tblUserRoles, roleCall>>

\* React commits the render that follows setSubmitting(true): the button
\* "Confirmar reserva" becomes disabled.
RenderSubmitting(u) ==
    /\ loc[u] = "reservation"
    /\ form[u].submitting
    /\ ~form[u].disabled
    /\ form' = [form EXCEPT ![u].disabled = TRUE]
    /\ lastOp' = NoOp
    /\ UNCHANGED <<tab, authUsers, roleHook, now, dbVars, loc, isAdmin, rooms, selectedRooms,
                   reservations, localStorage, roleCall>>

\* A further activation of the button handled before that render is
\* committed: handleSubmit calls onSubmit again, which validates the same
\* form and sends its insert.
OnSubmitAgain(u, guestData, max) ==
    /\ loc[u] = "reservation"
    /\ form[u].submitting
    /\ ~form[u].disabled
    /\ Len(tblReservations) + InFlight < max
    /\ LET f == form[u]
           rejection == SubmitRejection(f)
       IN  IF rejection # ""
           THEN /\ lastOp' = Op("onSubmit", u, rejection, FALSE, RejectionArg(f))
                /\ UNCHANGED form
           ELSE /\ form' = [form EXCEPT ![u].insert = Append(@, InsertedRow(u, f, guestData))]
                /\ lastOp' = Op("onSubmit", u, "", TRUE, 0)
    /\ UNCHANGED <<tab, authUsers, roleHook, now, dbVars, loc, isAdmin, rooms, selectedRooms,
                   reservations, localStorage, roleCall>>

(***************************************************************************)
(* My Reservations page.                                                   *)
(***************************************************************************)
\* fetchReservations of MyReservations: .eq("user_id", user.id)
OwnReservations(u, tbl) == { r \in FetchedReservations(u, tbl) : r.user_id = u }

\* Mount of MyReservations
OpenMyReservations(u) ==
    /\ Idle(u)
    /\ SetPage(u, "my-reservations", FALSE, {}, <<>>, EmptyForm, OwnReservations(u, tblReservations))
    /\ lastOp' = NoOp
    /\ UNCHANGED <<tab, authUsers, roleHook, now, dbVars, localStorage, roleCall>>

\* handleCancelReservation(reservation.id, reservation.check_in), from the
\* "Cancelar reserva" button, which is rendered for the reservations the
\* page shows as pending.  confirmed: the answer to the confirm() dialog.
HandleCancelReservation(u, r, confirmed, dbOk) ==
    /\ loc[u] = "my-reservations"
    /\ r \in reservations[u]
    /\ r.status = "pending"
    /\ IF ParseDate(r.check_in) <= now
       THEN /\ lastOp' = Op("handleCancelReservation", u,
                            "No se puede cancelar una reserva que ya ha iniciado", FALSE, r.id)
            /\ UNCHANGED <<tblReservations, reservations>>
       ELSE IF ~confirmed
       THEN /\ lastOp' = Op("handleCancelReservation", u, "", FALSE, r.id)
            /\ UNCHANGED <<tblReservations, reservations>>
       ELSE IF dbOk
       THEN /\ tblReservations' = UpdatedReservations(u, r.id, "cancelled")
            /\ reservations' = [reservations EXCEPT ![u] = OwnReservations(u, tblReservations')]
            /\ lastOp' = Op("handleCancelReservation", u, "Reserva cancelada exitosamente", TRUE, r.id)
       ELSE /\ lastOp' = Op("handleCancelReservation", u, "Error al cancelar la reserva", TRUE, r.id)
            /\ UNCHANGED <<tblReservations, reservations>>
    /\ UNCHANGED <<tab, authUsers, roleHook, now, tblRooms, tblUserRoles, loc, isAdmin, rooms, selectedRooms, form,
                   localStorage, roleCall>>

(***************************************************************************)
(* Admin pages.                                                            *)
(***************************************************************************)
\* The users whose e-mail is in `correos`, the list AdminRooms and AdminUsers
\* exempt from the redirect.
Correos == {"u3"}

\* Mount of an admin page: the role is looked up; a user who is not admin
\* is sent to /dashboard, or stays when `allowed`, and never gets the page's
\* data (the fetch effect runs for isAdmin only).
OpenAdminPage(u, page, rms, res, allowed) ==
    /\ Idle(u)
    /\ u \in authUsers
    /\ IF FetchRole(u) = "admin"
       THEN SetPage(u, page, TRUE, rms, <<>>, EmptyForm, res)
       ELSE IF allowed
       THEN SetPage(u, page, FALSE, {}, <<>>, EmptyForm, {})
       ELSE SetPage(u, "dashboard", FALSE, {}, <<>>, EmptyForm, {})
    /\ lastOp' = NoOp
    /\ UNCHANGED <<tab, authUsers, roleHook, now, dbVars, localStorage, roleCall>>

OpenAdminReservations(u) ==
    OpenAdminPage(u, "admin/reservations", {}, FetchedReservations(u, tblReservations), FALSE)

OpenAdminRooms(u) == OpenAdminPage(u, "admin/rooms", RoomsVisible(u), {}, u \in Correos)

OpenAdminUsers(u) == OpenAdminPage(u, "admin/users", {}, {}, u \in Correos)

\* The buttons AdminReservations renders for a row it shows with `status`.
OfferedStatuses(status) ==
    CASE status = "pending" -> {"confirmed", "cancelled"}
      [] status = "confirmed" -> {"completed"}
      [] OTHER -> {}

\* updateReservationStatus(reservation.id, newStatus)
UpdateReservationStatus(a, r, newStatus, dbOk) ==
    /\ loc[a] = "admin/reservations"
    /\ r \in reservations[a]
    /\ newStatus \in OfferedStatuses(r.status)
    /\ IF dbOk
       THEN /\ tblReservations' = UpdatedReservations(a, r.id, newStatus)
            /\ reservations' = [reservations EXCEPT ![a] = FetchedReservations(a, tblReservations')]
            /\ lastOp' = Op("updateReservationStatus", a, newStatus, TRUE, r.id)
       ELSE /\ lastOp' = Op("updateReservationStatus", a, "Error al actualizar reserva", TRUE, r.id)
            /\ UNCHANGED <<tblReservations, reservations>>
    /\ UNCHANGED <<tab, authUsers, roleHook, now, tblRooms, tblUserRoles, loc, isAdmin, rooms, selectedRooms, form,
                   localStorage, roleCall>>

\* roomData of handleSubmit
RoomData(id, input) ==
    [id |-> id, capacity |-> input.capacity, price |-> input.price, status |-> input.status]

\* AdminRooms.handleSubmit with editingRoom set: .update(roomData).eq("id", editingRoom.id)
HandleSubmitEdit(a, editingRoom, input, dbOk) ==
    /\ loc[a] = "admin/rooms"
    /\ editingRoom \in rooms[a]
    /\ IF dbOk
       THEN /\ tblRooms' = { IF row.id = editingRoom.id /\ RoomsWritable(a)
                             THEN RoomData(row.id, input) ELSE row : row \in tblRooms }
            /\ rooms' = [rooms EXCEPT ![a] = tblRooms']
            /\ lastOp' = Op("handleSubmit", a, "Habitacion actualizada", TRUE, 0)
       ELSE /\ lastOp' = Op("handleSubmit", a, "Error al guardar habitacion", TRUE, 0)
            /\ UNCHANGED <<tblRooms, rooms>>
    /\ UNCHANGED <<tab, authUsers, roleHook, now, tblReservations, tblUserRoles, loc, isAdmin, selectedRooms, form,
                   reservations, localStorage, roleCall>>

\* AdminRooms.handleSubmit without editingRoom: .insert([roomData]); id is
\* the fresh id the table gives the row.
HandleSubmitNew(a, id, input, dbOk) ==
    /\ loc[a] = "admin/rooms"
    /\ id \notin { row.id : row \in tblRooms }
    /\ IF dbOk /\ RoomsWritable(a)
       THEN /\ tblRooms' = tblRooms \cup { RoomData(id, input) }
            /\ rooms' = [rooms EXCEPT ![a] = tblRooms']
            /\ lastOp' = Op("handleSubmit", a, "Habitacion creada", TRUE, 0)
       ELSE /\ lastOp' = Op("handleSubmit", a, "Error al guardar habitacion", TRUE, 0)
            /\ UNCHANGED <<tblRooms, rooms>>
    /\ UNCHANGED <<tab, authUsers, roleHook, now, tblReservations, tblUserRoles, loc, isAdmin, selectedRooms, form,
                   reservations, localStorage, roleCall>>

\* AdminRooms.handleDelete(room.id), once the confirm() dialog is accepted
HandleDelete(a, room, dbOk) ==
    /\ loc[a] = "admin/rooms"
    /\ room \in rooms[a]
    /\ IF dbOk
       THEN /\ tblRooms' = { row \in tblRooms : ~(row.id = room.id /\ RoomsWritable(a)) }
            /\ rooms' = [rooms EXCEPT ![a] = tblRooms']
            /\ lastOp' = Op("handleDelete", a, "Habitacion eliminada", TRUE, 0)
       ELSE /\ lastOp' = Op("handleDelete", a, "Error al eliminar habitacion", TRUE, 0)
            /\ UNCHANGED <<tblRooms, rooms>>
    /\ UNCHANGED <<tab, authUsers, roleHook, now, tblReservations, tblUserRoles, loc, isAdmin, selectedRooms, form,
                   reservations, localStorage, roleCall>>

\* An updateUserRole whose control is also offered for the admin's own row
\* (not the code's).
UpdateUserRoleOwnRowToo(a, userId, newRole, dbOk) ==
    /\ loc[a] = "admin/users"
    /\ roleCall[a] = <<>>
    /\ userId \in authUsers
    /\ IF dbOk
       THEN /\ tblUserRoles' = { row \in tblUserRoles : ~(row.user_id = userId /\ RolesWritable(a)) }
            /\ roleCall' = [roleCall EXCEPT ![a] = <<[user_id |-> userId, role |-> newRole]>>]
            /\ lastOp' = Op("updateUserRole", a, "", TRUE, 0)
       ELSE /\ lastOp' = Op("updateUserRole", a, "Error al actualizar rol", TRUE, 0)
            /\ UNCHANGED <<tblUserRoles, roleCall>>
    /\ UNCHANGED <<tab, authUsers, roleHook, now, tblRooms, tblReservations, pageVars, localStorage>>

\* updateUserRole(userId, newRole) up to its second await: the delete.  The
\* page offers the control for every user but the admin's own row.
UpdateUserRole(a, userId, newRole, dbOk) ==
    /\ loc[a] = "admin/users"
    /\ roleCall[a] = <<>>
    /\ userId # a
    /\ userId \in authUsers
    /\ IF dbOk
       THEN /\ tblUserRoles' = { row \in tblUserRoles : ~(row.user_id = userId /\ RolesWritable(a)) }
            /\ roleCall' = [roleCall EXCEPT ![a] = <<[user_id |-> userId, role |-> newRole]>>]
            /\ lastOp' = Op("updateUserRole", a, "", TRUE, 0)
       ELSE /\ lastOp' = Op("updateUserRole", a, "Error al actualizar rol", TRUE, 0)
            /\ UNCHANGED <<tblUserRoles, roleCall>>
    /\ UNCHANGED <<tab, authUsers, roleHook, now, tblRooms, tblReservations, pageVars, localStorage>>

\* updateUserRole after the delete: the insert.  The policy's check and the
\* UNIQUE(user_id, role) constraint can refuse the row.
UpdateUserRoleInsert(a, dbOk) ==
    /\ roleCall[a] # <<>>
    /\ LET row == roleCall[a][1]
       IN  IF dbOk /\ RolesWritable(a) /\ row \notin tblUserRoles
           THEN /\ tblUserRoles' = tblUserRoles \cup {row}
                /\ lastOp' = Op("updateUserRole", a, "Rol actualizado", TRUE, 0)
           ELSE /\ lastOp' = Op("updateUserRole", a, "Error al actualizar rol", TRUE, 0)
                /\ UNCHANGED tblUserRoles
    /\ roleCall' = [roleCall EXCEPT ![a] = <<>>]
    /\ UNCHANGED <<tab, authUsers, roleHook, now, tblRooms, tblReservations, pageVars, localStorage>>

(***************************************************************************)
(* Requests to the reservations table.                                     *)
(***************************************************************************)
\* An insert into reservations sent with caller's session and naming owner
\* as user_id (a client whose `user` is not the session's user): the policy
\* "Users can create reservations" decides.  A refused row is an error.
InsertReservationRequest(caller, owner, dbOk) ==
    /\ caller \in authUsers
    /\ Len(tblReservations) + InFlight < MaxReservations
    /\ LET row == [user_id |-> owner, room_ids |-> <<"r1">>, check_in |-> 0, check_out |-> 1,
                   guests |-> 1, total_price |-> 100, guest_data |-> "guest",
                   status |-> "pending"]
           id == Len(tblReservations) + 1
       IN  IF dbOk /\ ReservationInsertable(caller, row)
           THEN /\ tblReservations' = Append(tblReservations, row)
                /\ lastOp' = [Op("insertReservation", caller, "", TRUE, id) EXCEPT !.room = <<row>>]
           ELSE /\ lastOp' = [Op("insertReservation", caller, "Error al crear la reserva", TRUE, 0)
                                EXCEPT !.room = <<row>>]
                /\ UNCHANGED tblReservations
    /\ UNCHANGED <<now, tblRooms, tblUserRoles, pageVars, localStorage, roleCall, authUsers, roleHook, tab>>

(***************************************************************************)
(* Accounts and the useUserRole hook.                                      *)
(***************************************************************************)
\* Sign-up: the trigger handle_new_user gives the new account the role
\* 'cliente' in the transaction that creates it.
SignUp(u) ==
    /\ u \notin authUsers
    /\ authUsers' = authUsers \cup {u}
    /\ tblUserRoles' = tblUserRoles \cup {[user_id |-> u, role |-> "cliente"]}
    /\ lastOp' = NoOp
    /\ UNCHANGED <<now, tblRooms, tblReservations, pageVars, localStorage, roleCall, roleHook, tab>>

\* isAdmin: role === 'admin'
HookIsAdmin(h) == h.role = <<"admin">>

\* The effect of useUserRole, run at mount and when userId changes: without
\* a userId it resets role and loading, otherwise it starts fetchRole.
EffectRun(h, userId) ==
    IF userId = <<>>
    THEN [h EXCEPT !.userId = userId, !.ran = TRUE, !.role = <<>>, !.loading = FALSE]
    ELSE [h EXCEPT !.userId = userId, !.ran = TRUE, !.pending = @ \cup {userId[1]}]

\* The effect in a tab with no admin page mounted, for whatever userId the
\* component that uses the hook passes.
UseUserRoleEffect(t, userId) ==
    /\ tab[t].page \notin AdminPages
    /\ ~roleHook[t].ran \/ userId # roleHook[t].userId
    /\ \A uid \in Users : userId = <<uid>> => uid \in authUsers
    /\ roleHook' = [roleHook EXCEPT ![t] = EffectRun(@, userId)]
    /\ lastOp' = NoOp
    /\ UNCHANGED <<now, dbVars, pageVars, localStorage, roleCall, authUsers, tab>>

\* The dependencies of the admin pages' guard effect:
\* [user, isAdmin, authLoading, roleLoading].
GuardDeps(a, h) == <<a.user, HookIsAdmin(h), a.loading, h.loading>>

\* navigate(page, { replace: true }): the admin page and its hooks unmount.
Navigate(a, page) == ClosedTab(page, a.client)

\* The guard effect after a render that took the tab from `old` to `a` and
\* the role hook from oldHook to h.  With the dependencies unchanged it does
\* not run and a timer stays.  Otherwise the cleanup clears the timer; while
\* either hook is loading it returns; AdminDashboard and AdminReservations
\* then start the 500 ms timer with user and isAdmin as they are now;
\* AdminRooms and AdminUsers navigate at once, to /login without a user, to
\* /dashboard for a non-admin whose address is not in `correos`.
GuardEffect(old, oldHook, a, h) ==
    IF GuardDeps(old, oldHook) = GuardDeps(a, h) THEN a
    ELSE IF a.page \in TimerPages
         THEN [a EXCEPT !.timer = IF a.loading \/ h.loading THEN <<>>
                                  ELSE <<[user |-> a.user, isAdmin |-> HookIsAdmin(h)]>>]
         ELSE IF a.loading \/ h.loading THEN a
              ELSE IF a.user = <<>> THEN Navigate(a, "login")
              ELSE IF ~HookIsAdmin(h) /\ a.user[1] \notin Correos THEN Navigate(a, "dashboard")
              ELSE a

\* A render of the admin page in tab t and the effects after it: a is the
\* tab with useAuth's new state, h the role hook with its new state;
\* useUserRole(user?.id) runs its effect when the user id changed, then the
\* guard runs.
Rendered(t, a, h) ==
    LET h1 == IF h.ran /\ a.user = h.userId THEN h ELSE EffectRun(h, a.user)
        g == GuardEffect(tab[t], roleHook[t], a, h1)
    IN  /\ tab' = [tab EXCEPT ![t] = g]
        /\ roleHook' = [roleHook EXCEPT ![t] = IF g.page \in AdminPages THEN h1 ELSE NewRoleHook]

\* fetchRole after its await, for the lookup of uid: setRole, setLoading(false).
FetchRoleAnswer(t, uid, netOk) ==
    /\ uid \in roleHook[t].pending
    /\ LET found == {r \in tblUserRoles : r.user_id = uid}
           h == [roleHook[t] EXCEPT !.role = <<RoleOfLookup(found, netOk)>>,
                                    !.loading = FALSE,
                                    !.pending = @ \ {uid}]
       IN  /\ IF tab[t].page \in AdminPages
              THEN Rendered(t, tab[t], h)
              ELSE /\ roleHook' = [roleHook EXCEPT ![t] = h]
                   /\ UNCHANGED tab
           /\ lastOp' = Op("fetchRole", t,
                           IF Single(found, netOk) = <<>> THEN "Error fetching user role" ELSE "",
                           TRUE, 0)
    /\ UNCHANGED <<now, dbVars, pageVars, localStorage, roleCall, authUsers>>

\* signInWithPassword in the browser of tab t (from this tab or another):
\* the client's session is u's, a mounted listener is sent the change.
SignIn(t, u) ==
    /\ u \in authUsers
    /\ tab[t].client # <<u>>
    /\ tab[t].page \in AdminPages => Len(tab[t].events) < MaxEvents
    /\ tab' = [tab EXCEPT ![t].client = <<u>>,
                          ![t].events = IF tab[t].page \in AdminPages THEN Append(@, <<u>>) ELSE @]
    /\ lastOp' = NoOp
    /\ UNCHANGED <<now, dbVars, pageVars, localStorage, roleCall, authUsers, roleHook>>

\* signOut in the browser of tab t.
SignOut(t) ==
    /\ tab[t].client # <<>>
    /\ tab[t].page \in AdminPages => Len(tab[t].events) < MaxEvents
    /\ tab' = [tab EXCEPT ![t].client = <<>>,
                          ![t].events = IF tab[t].page \in AdminPages THEN Append(@, <<>>) ELSE @]
    /\ lastOp' = NoOp
    /\ UNCHANGED <<now, dbVars, pageVars, localStorage, roleCall, authUsers, roleHook>>

\* The tab loads an admin page: useAuth starts with no user and loading,
\* subscribes and calls getSession(); useUserRole(undefined) runs its effect.
OpenPage(t, page) ==
    /\ tab[t].page \notin AdminPages
    /\ page \in AdminPages
    /\ Rendered(t, [ClosedTab(page, tab[t].client) EXCEPT !.getSession = "called"], NewRoleHook)
    /\ lastOp' = NoOp
    /\ UNCHANGED <<now, dbVars, pageVars, localStorage, roleCall, authUsers>>

\* getSession() reads the session the client holds.
GetSessionRead(t) ==
    /\ tab[t].getSession = "called"
    /\ tab' = [tab EXCEPT ![t].getSession = "read", ![t].session = tab[t].client]
    /\ lastOp' = NoOp
    /\ UNCHANGED <<now, dbVars, pageVars, localStorage, roleCall, authUsers, roleHook>>

\* getSession().then: setSession, setUser, setLoading(false).
GetSessionThen(t) ==
    /\ tab[t].getSession = "read"
    /\ Rendered(t, [tab[t] EXCEPT !.getSession = "done", !.session = <<>>,
                                  !.user = tab[t].session, !.loading = FALSE],
                roleHook[t])
    /\ lastOp' = NoOp
    /\ UNCHANGED <<now, dbVars, pageVars, localStorage, roleCall, authUsers>>

\* The onAuthStateChange listener: setSession, setUser, setLoading(false).
OnAuthStateChange(t) ==
    /\ tab[t].events # <<>>
    /\ Rendered(t, [tab[t] EXCEPT !.events = Tail(@), !.user = Head(tab[t].events),
                                  !.loading = FALSE],
                roleHook[t])
    /\ lastOp' = NoOp
    /\ UNCHANGED <<now, dbVars, pageVars, localStorage, roleCall, authUsers>>

\* The guard's timer fires, 500 ms after the effect that started it, with
\* the user and isAdmin of that effect's render.
GuardTimeout(t) ==
    /\ tab[t].timer # <<>>
    /\ LET c == tab[t].timer[1]
           g == IF c.user = <<>> THEN Navigate(tab[t], "login")
                ELSE IF ~c.isAdmin THEN Navigate(tab[t], "dashboard")
                ELSE [tab[t] EXCEPT !.timer = <<>>]
       IN  /\ tab' = [tab EXCEPT ![t] = g]
           /\ roleHook' = [roleHook EXCEPT ![t] = IF g.page \in AdminPages THEN @ ELSE NewRoleHook]
    /\ lastOp' = NoOp
    /\ UNCHANGED <<now, dbVars, pageVars, localStorage, roleCall, authUsers>>

(***************************************************************************)
(* Specifications.                                                         *)
(***************************************************************************)
\* The catalogue and the cart.
CartSteps(u) ==
    \/ OpenRooms(u)
    \/ \E room \in rooms[u] : HandleAddRoom(u, room)
    \/ \E roomId \in 0..(MaxCart - 1) : HandleRemoveRoom(u, roomId)
    \/ HandleGoToReservation(u)
    \/ OpenReservation(u)

\* The booking form; inDays and outDays are the days picked in the calendars,
\* texts what is typed in the guests field.
FormSteps(u, inDays, outDays, texts) ==
    \/ \E d \in inDays : SetCheckIn(u, d)
    \/ \E d \in outDays : SetCheckOut(u, d)
    \/ \E text \in texts : SetGuests(u, text)
    \/ \E guestData \in GuestDataValues : OnSubmit(u, guestData)
    \/ \E dbOk \in BOOLEAN : OnSubmitAnswer(u, dbOk)

\* The booking form with the button activated again before it is rendered
\* disabled.
HastyFormSteps(u, inDays, outDays, max) ==
    \/ \E d \in inDays : SetCheckIn(u, d)
    \/ \E d \in outDays : SetCheckOut(u, d)
    \/ \E guestData \in GuestDataValues : OnSubmitWithin(u, guestData, max)
    \/ RenderSubmitting(u)
    \/ \E guestData \in GuestDataValues : OnSubmitAgain(u, guestData, max)
    \/ \E dbOk \in BOOLEAN : OnSubmitAnswer(u, dbOk)

\* The booking form of a user who books more than once: the dates, and up
\* to max reservations.
RepeatedFormSteps(u, inDays, outDays, max) ==
    \/ \E d \in inDays : SetCheckIn(u, d)
    \/ \E d \in outDays : SetCheckOut(u, d)
    \/ \E guestData \in GuestDataValues : OnSubmitWithin(u, guestData, max)
    \/ \E dbOk \in BOOLEAN : OnSubmitAnswer(u, dbOk)

\* The owner's list of reservations.
MyReservationsSteps(u) ==
    \/ OpenMyReservations(u)
    \/ \E r \in reservations[u], confirmed \in BOOLEAN, dbOk \in BOOLEAN :
          HandleCancelReservation(u, r, confirmed, dbOk)

\* The admin room editor; ids are the ids new rooms get, newInputs and
\* editInputs what the form is filled in with.
AdminRoomsSteps(a, ids, newInputs, editInputs) ==
    \/ OpenAdminRooms(a)
    \/ \E room \in rooms[a], input \in editInputs, dbOk \in BOOLEAN :
          HandleSubmitEdit(a, room, input, dbOk)
    \/ \E id \in ids, input \in newInputs, dbOk \in BOOLEAN :
          HandleSubmitNew(a, id, input, dbOk)
    \/ \E room \in rooms[a], dbOk \in BOOLEAN : HandleDelete(a, room, dbOk)

\* The admin list of reservations.
AdminReservationsSteps(a) ==
    \/ OpenAdminReservations(a)
    \/ \E r \in reservations[a], newStatus \in ReservationStatuses, dbOk \in BOOLEAN :
          UpdateReservationStatus(a, r, newStatus, dbOk)

\* The admin list of users.
AdminUsersSteps(a) ==
    \/ OpenAdminUsers(a)
    \/ \E userId \in Users, newRole \in AppRoles, dbOk \in BOOLEAN :
          UpdateUserRole(a, userId, newRole, dbOk)
    \/ \E dbOk \in BOOLEAN : UpdateUserRoleInsert(a, dbOk)

\* The hook in tab t, signed in as one of ids or signed out.
RoleHookSteps(t, ids) ==
    \/ \E userId \in {<<>>} \cup {<<uid>> : uid \in ids} : UseUserRoleEffect(t, userId)
    \/ \E uid \in ids, netOk \in BOOLEAN : FetchRoleAnswer(t, uid, netOk)

\* A tab on the admin addresses `pages`, in a browser where the accounts ids
\* sign in and out: the page's useAuth, useUserRole and guard.
TabSteps(t, ids, pages) ==
    \/ \E u \in ids : SignIn(t, u)
    \/ SignOut(t)
    \/ \E page \in pages : OpenPage(t, page)
    \/ GetSessionRead(t)
    \/ GetSessionThen(t)
    \/ OnAuthStateChange(t)
    \/ \E uid \in ids, netOk \in BOOLEAN : FetchRoleAnswer(t, uid, netOk)
    \/ GuardTimeout(t)

RoomA == [capacity |-> 2, price |-> 100, status |-> "available"]
RoomB == [capacity |-> 1, price |-> 150, status |-> "available"]

\* Every user does everything, from an empty store.
Next ==
    \/ Tick
    \/ \E u \in Users :
        \/ CartSteps(u)
        \/ FormSteps(u, Days, Days, GuestsTexts)
        \/ MyReservationsSteps(u)
        \/ AdminRoomsSteps(u, RoomIds, RoomInputs, RoomInputs)
        \/ AdminReservationsSteps(u)
        \/ AdminUsersSteps(u)

Spec == Init /\ [][Next]_vars

\* The cart: the admin u1 edits the rooms while the customer u2 fills a cart.
NextCart ==
    \/ AdminRoomsSteps("u1", RoomIds, RoomInputs, RoomInputs)
    \/ CartSteps("u2")

SpecCart == Init /\ [][NextCart]_vars

\* Booking: the admin u1 edits the room r1 while the customer u2 fills a
\* cart and books.
NextBooking ==
    \/ AdminRoomsSteps("u1", {"r1"}, RoomInputs, RoomInputs)
    \/ CartSteps("u2")
    \/ FormSteps("u2", Days, Days, GuestsTexts)

SpecBooking == Init /\ [][NextBooking]_vars

\* Lifecycle: the customer u2 books and cancels, the admin u1 moves the
\* reservation on and edits the room, and time passes.
NextLifecycle ==
    \/ Tick
    \/ AdminRoomsSteps("u1", {"r1"}, {RoomA}, {RoomB})
    \/ AdminReservationsSteps("u1")
    \/ CartSteps("u2")
    \/ FormSteps("u2", Days, Days, {""})
    \/ MyReservationsSteps("u2")

SpecLifecycle == Init /\ [][NextLifecycle]_vars

\* Roles: the admin u1 creates the room and changes u2's role; u2 books,
\* and works in the admin pages while the lookup says admin.
NextRoles ==
    \/ OpenAdminRooms("u1")
    \/ \E dbOk \in BOOLEAN : HandleSubmitNew("u1", "r1", RoomA, dbOk)
    \/ AdminUsersSteps("u1")
    \/ CartSteps("u2")
    \/ FormSteps("u2", {0}, {1}, {""})
    \/ AdminReservationsSteps("u2")
    \/ AdminUsersSteps("u2")

SpecRoles == Init /\ [][NextRoles]_vars


\* Accounts: u3 signs up; the admin u1 and u2, once u1 has made u2 an admin,
\* change roles; the hook in u3's tab looks roles up.
NextAccounts ==
    \/ SignUp("u3")
    \/ AdminUsersSteps("u1")
    \/ AdminUsersSteps("u2")
    \/ RoleHookSteps("u3", {"u2", "u3"})

SpecAccounts == Init /\ [][NextAccounts]_vars

\* Reads: the admin u1 creates the room, books it as a guest, may cancel and
\* changes u2's role; u2 reads reservations from My Reservations and from
\* Admin Reservations, before and after losing the role.
NextReads ==
    \/ OpenAdminRooms("u1")
    \/ \E dbOk \in BOOLEAN : HandleSubmitNew("u1", "r1", RoomA, dbOk)
    \/ CartSteps("u1")
    \/ FormSteps("u1", {1}, {2}, {""})
    \/ MyReservationsSteps("u1")
    \/ AdminUsersSteps("u1")
    \/ AdminReservationsSteps("u1")
    \/ AdminReservationsSteps("u2")
    \/ OpenMyReservations("u2")

SpecReads == Init /\ [][NextReads]_vars

\* Owners: the admin u1 creates the room, u2 books through the form, and
\* inserts are requested by u1 and u2 in their own and in each other's name.
NextOwners ==
    \/ OpenAdminRooms("u1")
    \/ \E dbOk \in BOOLEAN : HandleSubmitNew("u1", "r1", RoomA, dbOk)
    \/ CartSteps("u2")
    \/ FormSteps("u2", {0}, {1}, {""})
    \/ \E caller \in {"u1", "u2"}, owner \in {"u1", "u2"}, dbOk \in BOOLEAN :
          InsertReservationRequest(caller, owner, dbOk)

SpecOwners == Init /\ [][NextOwners]_vars

\* Rooms: the admin u1 edits rooms and changes u2's role; u2 works in the
\* room editor while admin and after; u3, whose e-mail is in `correos`,
\* signs up and uses the editor's form without the role.
NextRooms ==
    \/ AdminRoomsSteps("u1", {"r1"}, {RoomA}, {RoomB})
    \/ AdminUsersSteps("u1")
    \/ AdminRoomsSteps("u2", {"r2"}, {RoomA}, {RoomB})
    \/ SignUp("u3")
    \/ OpenAdminRooms("u3")
    \/ \E dbOk \in BOOLEAN : HandleSubmitNew("u3", "r2", RoomA, dbOk)

SpecRooms == Init /\ [][NextRooms]_vars

\* Editor: the admin u1 creates, edits and deletes rooms, typing the
\* capacity and the price.
NextEditor == AdminRoomsSteps("u1", RoomIds, TypedRoomInputs, TypedRoomInputs)

SpecEditor == Init /\ [][NextEditor]_vars

\* Guests: the admin u1 creates the room; u2 books it, typing the number of
\* guests.
TypedGuestsTexts == {"", "0", "-1", "2"}

NextGuests ==
    \/ OpenAdminRooms("u1")
    \/ \E dbOk \in BOOLEAN : HandleSubmitNew("u1", "r1", RoomA, dbOk)
    \/ CartSteps("u2")
    \/ FormSteps("u2", {0}, {1}, TypedGuestsTexts)

SpecGuests == Init /\ [][NextGuests]_vars

\* Overlap: the admin u1 creates the room r1; u1 and u2 each put it in a
\* cart and book it, one after the other or at the same time.
NextOverlap ==
    \/ OpenAdminRooms("u1")
    \/ \E dbOk \in BOOLEAN : HandleSubmitNew("u1", "r1", RoomA, dbOk)
    \/ \E u \in {"u1", "u2"} :
          \/ OpenRooms(u)
          \/ \E room \in rooms[u] : HandleAddRoom(u, room)
          \/ OpenReservation(u)
          \/ RepeatedFormSteps(u, {0, 1}, {1, 2}, MaxOverlapping)

SpecOverlap == Init /\ [][NextOverlap]_vars

\* Hasty: the admin u1 creates the rooms; u2 fills a cart and the form and
\* activates "Confirmar reserva", possibly again before the page has
\* rendered it disabled.
NextHasty ==
    \/ OpenAdminRooms("u1")
    \/ \E id \in RoomIds, dbOk \in BOOLEAN : HandleSubmitNew("u1", id, RoomA, dbOk)
    \/ CartSteps("u2")
    \/ HastyFormSteps("u2", {0, 1}, {1, 2}, MaxOverlapping)

SpecHasty == Init /\ [][NextHasty]_vars

\* Guard: u3 signs up; in one browser the admin u1, the customer u2 and u3,
\* whose address is in `correos`, sign in and out and load the admin pages.
\* Nobody changes a role.
NextGuard ==
    \/ SignUp("u3")
    \/ TabSteps("u1", Users, AdminPages)

SpecGuard == Init /\ [][NextGuard]_vars

\* What the page in tab t does by itself, sooner or later: getSession
\* answers, a pending auth event is delivered, a lookup answers, a started
\* timer fires.
TabProgress(t) ==
    /\ WF_vars(GetSessionRead(t))
    /\ WF_vars(GetSessionThen(t))
    /\ WF_vars(OnAuthStateChange(t))
    /\ WF_vars(\E uid \in Users, netOk \in BOOLEAN : FetchRoleAnswer(t, uid, netOk))
    /\ WF_vars(GuardTimeout(t))

SpecGuardLive == SpecGuard /\ TabProgress("u1")

(***************************************************************************)
(* Properties.                                                             *)
(***************************************************************************)
\* Sums and the ceiling, written out for the statements below.
PriceSum(rs) ==
    LET S[i \in 0..Len(rs)] == IF i = 0 THEN 0 ELSE S[i - 1] + rs[i].price
    IN  S[Len(rs)]

CapacitySum(rs) ==
    LET S[i \in 0..Len(rs)] == IF i = 0 THEN 0 ELSE S[i - 1] + rs[i].capacity
    IN  S[Len(rs)]

\* The least whole number of days that covers ms milliseconds.
CeilDays(ms) ==
    CHOOSE n \in 0..(MaxDay + 2) : n * MS_PER_DAY >= ms /\ (n - 1) * MS_PER_DAY < ms

\* The capacity the rooms table records for the rooms of room_ids.
TableCapacity(room_ids) ==
    LET cap(id) == IF \E row \in tblRooms : row.id = id
                   THEN (CHOOSE row \in tblRooms : row.id = id).capacity
                   ELSE 0
        S[i \in 0..Len(room_ids)] == IF i = 0 THEN 0 ELSE S[i - 1] + cap(room_ids[i])
    IN  S[Len(room_ids)]

AllowedTransitions ==
    { <<"pending", "confirmed">>, <<"pending", "cancelled">>, <<"confirmed", "completed">> }

\* The step inserts a reservation.
Inserts == Len(tblReservations') = Len(tblReservations) + 1
NewRow == tblReservations'[Len(tblReservations')]

\* C1: every reservation is first persisted as pending, and every change of
\* a persisted status is pending->confirmed, pending->cancelled or
\* confirmed->completed.
C1_OnlyAllowedTransitions ==
    [][ /\ Len(tblReservations') >= Len(tblReservations)
        /\ \A i \in 1..Len(tblReservations') :
              IF i > Len(tblReservations)
              THEN tblReservations'[i].status = "pending"
              ELSE \/ tblReservations'[i].status = tblReservations[i].status
                   \/ <<tblReservations[i].status, tblReservations'[i].status>>
                          \in AllowedTransitions ]_vars

\* The step is a confirm, cancel or complete sent for reservation lastOp'.arg.
TransitionSent ==
    /\ lastOp'.op \in {"updateReservationStatus", "handleCancelReservation"}
    /\ lastOp'.sent

ErrorToasts == {"Error al actualizar reserva", "Error al cancelar la reserva"}

\* C2: a confirm, cancel or complete applied to a reservation that is
\* cancelled or completed ends in an error, and the status stays as it was.
C2_TerminalStatesRejected ==
    [][ TransitionSent /\ tblReservations[lastOp'.arg].status \in {"cancelled", "completed"}
          => /\ lastOp'.toast \in ErrorToasts
             /\ tblReservations' = tblReservations ]_vars

\* C3: a customer's cancel changes a reservation to cancelled only when its
\* persisted status is pending and its check-in is later than now; with
\* check-in <= now it is rejected and no update is sent.
C3_CustomerCancelGuarded ==
    [][ lastOp'.op = "handleCancelReservation"
          => LET old == tblReservations[lastOp'.arg]
                 new == tblReservations'[lastOp'.arg]
             IN  /\ new.status = "cancelled" /\ old.status # "cancelled"
                      => old.status = "pending" /\ ParseDate(old.check_in) > now
                 /\ ParseDate(old.check_in) <= now
                      => ~lastOp'.sent /\ tblReservations' = tblReservations ]_vars

\* C4: a reservation becomes confirmed or completed only by a step of a
\* caller who holds the admin role when the update is made.
C4_ConfirmCompleteByAdminOnly ==
    [][ \A i \in 1..Len(tblReservations) :
          /\ tblReservations'[i].status # tblReservations[i].status
          /\ tblReservations'[i].status \in {"confirmed", "completed"}
          => has_role(lastOp'.caller, "admin") ]_vars


\* The step is the click on "Confirmar reserva" by u (onSubmit up to its await).
SubmitClick(u) == lastOp'.op = "onSubmit" /\ lastOp'.caller = u /\ ~form[u].submitting

\* The step sends u's insert.
InsertSent(u) == ~form[u].submitting /\ form'[u].submitting

\* C5: onSubmit with a date missing or with checkOut <= checkIn is rejected
\* and sends no insert; every persisted reservation has check_out later than
\* check_in.
C5_DateRangeValidated ==
    [][ /\ \A u \in Users :
              LET f == form[u]
              IN  SubmitClick(u) /\ (f.checkIn = NoDate \/ f.checkOut = NoDate \/ f.checkOut <= f.checkIn)
                    => /\ ~InsertSent(u)
                       /\ ~lastOp'.sent
                       /\ lastOp'.toast \in {"Por favor, seleccione las fechas de su estadia",
                                             "La fecha de salida debe ser posterior a la fecha de entrada"}
                       /\ tblReservations' = tblReservations
        /\ \A i \in 1..Len(tblReservations') :
              tblReservations'[i].check_out > tblReservations'[i].check_in ]_vars

\* A submit with checkOut on the day of checkIn was rejected.
C5_Witness ==
    /\ lastOp.op = "onSubmit"
    /\ lastOp.toast = "La fecha de salida debe ser posterior a la fecha de entrada"
    /\ form["u2"].checkIn # NoDate
    /\ form["u2"].checkOut = form["u2"].checkIn
    /\ tblReservations = <<>>

\* C6: onSubmit with more guests than the capacities of the cart's rooms add
\* up to sends no insert, and with valid dates its notification shows that sum.
C6_CapacityValidated ==
    [][ \A u \in Users :
          LET f == form[u]
          IN  SubmitClick(u) /\ f.guests > CapacitySum(f.rooms)
                => /\ ~InsertSent(u)
                   /\ ~lastOp'.sent
                   /\ tblReservations' = tblReservations
                   /\ f.checkIn # NoDate /\ f.checkOut # NoDate /\ f.checkOut > f.checkIn
                        => /\ lastOp'.toast = "Las habitaciones seleccionadas tienen capacidad para N personas maximo"
                           /\ lastOp'.arg = CapacitySum(f.rooms) ]_vars

\* A cart of two entries was refused for too many guests, and told the sum
\* of the two capacities.
C6_Witness ==
    /\ lastOp.op = "onSubmit"
    /\ lastOp.toast = "Las habitaciones seleccionadas tienen capacidad para N personas maximo"
    /\ Len(form["u2"].rooms) = 2
    /\ lastOp.arg = form["u2"].rooms[1].capacity + form["u2"].rooms[2].capacity
    /\ form["u2"].guests > lastOp.arg

\* C7: when a reservation is inserted, its guests are at most the sum of the
\* capacities the rooms table records for its rooms at that moment.
C7_GuestsWithinTableCapacity ==
    [][ Inserts => NewRow.guests <= TableCapacity(NewRow.room_ids) ]_vars

\* C8: the stored total_price is nights x the sum of the prices of all cart
\* entries, nights being the ceiling of checkOut - checkIn in days.
C8_StoredTotalPrice ==
    [][ Inserts =>
          LET f == form[NewRow.user_id]
          IN  /\ f.checkOut > f.checkIn
              /\ NewRow.total_price = CeilDays(f.checkOut - f.checkIn) * PriceSum(f.rooms)
              /\ Len(NewRow.room_ids) = Len(f.rooms) ]_vars

\* A stay over the night the clocks go back (25 hours, two nights) in two
\* entries of different price is stored.
C8_Witness ==
    /\ Len(tblReservations) = 1
    /\ tblReservations[1].check_in = MaxDay - 1
    /\ tblReservations[1].check_out = MaxDay
    /\ Len(tblReservations[1].room_ids) = 2
    /\ tblReservations[1].total_price = 2 * (100 + 150)

\* C9: no step changes total_price, room_ids, check_in, check_out, guests or
\* guest_data of an existing reservation, or removes one.
C9_ReservationFrame ==
    [][ /\ Len(tblReservations') >= Len(tblReservations)
        /\ \A i \in 1..Len(tblReservations) :
              /\ tblReservations'[i].total_price = tblReservations[i].total_price
              /\ tblReservations'[i].room_ids = tblReservations[i].room_ids
              /\ tblReservations'[i].check_in = tblReservations[i].check_in
              /\ tblReservations'[i].check_out = tblReservations[i].check_out
              /\ tblReservations'[i].guests = tblReservations[i].guests
              /\ tblReservations'[i].guest_data = tblReservations[i].guest_data
              /\ tblReservations'[i].user_id = tblReservations[i].user_id ]_vars

\* A reservation made at 100 a night is completed, its room since repriced
\* and then deleted.
C9_Witness ==
    /\ Len(tblReservations) = 1
    /\ tblReservations[1].status = "completed"
    /\ tblReservations[1].total_price = 100
    /\ tblRooms = {}
    /\ lastOp.op = "handleDelete"

\* C10: handleAddRoom with a room that is not available leaves the cart
\* (state and localStorage) as it is; with an available room the cart is the
\* old cart with the room appended, also when its id is already in the cart.
C10_AddRoom ==
    [][ lastOp'.op = "handleAddRoom" =>
          LET u == lastOp'.caller
              room == lastOp'.room[1]
          IN  IF room.status # "available"
              THEN /\ selectedRooms' = selectedRooms
                   /\ localStorage' = localStorage
                   /\ lastOp'.toast = "Esta habitacion no esta disponible"
              ELSE /\ selectedRooms'[u] = selectedRooms[u] \o <<room>>
                   /\ localStorage'[u].selectedRooms = <<selectedRooms[u] \o <<room>>>>
                   /\ \A v \in Users \ {u} : selectedRooms'[v] = selectedRooms[v]
                                             /\ localStorage'[v] = localStorage[v] ]_vars

\* A room in maintenance was refused while the cart holds the same room twice.
C10_Witness ==
    /\ lastOp.op = "handleAddRoom"
    /\ lastOp.room[1].status = "maintenance"
    /\ Len(selectedRooms["u2"]) = 2
    /\ selectedRooms["u2"][1].id = selectedRooms["u2"][2].id
    /\ localStorage["u2"].selectedRooms = <<selectedRooms["u2"]>>

\* C11: handleRemoveRoom(i) with 0 <= i < length of the cart leaves the cart
\* without the entry at position i, the others (same id included) in their
\* order; with i out of range the cart keeps its entries.  localStorage holds
\* the resulting cart.
C11_RemoveRoomByPosition ==
    [][ lastOp'.op = "handleRemoveRoom" =>
          LET u == lastOp'.caller
              i == lastOp'.arg
              old == selectedRooms[u]
              new == selectedRooms'[u]
          IN  /\ IF 0 <= i /\ i < Len(old)
                 THEN /\ Len(new) = Len(old) - 1
                      /\ \A k \in 1..Len(new) : new[k] = IF k <= i THEN old[k] ELSE old[k + 1]
                 ELSE new = old
              /\ localStorage'[u].selectedRooms = <<new>>
              /\ \A v \in Users \ {u} : selectedRooms'[v] = selectedRooms[v]
                                        /\ localStorage'[v] = localStorage[v] ]_vars

\* The first of two entries was removed: one entry is left.
C11_Witness ==
    /\ lastOp.op = "handleRemoveRoom"
    /\ lastOp.arg = 0
    /\ Len(selectedRooms["u2"]) = 1
    /\ localStorage["u2"].selectedRooms = <<selectedRooms["u2"]>>

\* The step answers u's insert with a failure.
InsertFailed(u) ==
    /\ form[u].submitting
    /\ lastOp'.op = "onSubmit" /\ lastOp'.caller = u
    /\ ~Inserts

\* C12: when the insert fails, localStorage (the cart "selectedRooms" and the
\* confirmation record "currentReservation") is as before and the form, still
\* filled in, can be submitted again; "selectedRooms" is removed from
\* localStorage only by a step that inserts the caller's reservation.
C12_FailedInsertKeepsCart ==
    [][ \A u \in Users :
          /\ InsertFailed(u)
               => /\ localStorage' = localStorage
                  /\ tblReservations' = tblReservations
                  /\ ~form'[u].submitting
                  /\ loc'[u] = "reservation"
                  /\ form'[u].rooms = form[u].rooms
                  /\ form'[u].checkIn = form[u].checkIn
                  /\ form'[u].checkOut = form[u].checkOut
                  /\ form'[u].guests = form[u].guests
          /\ localStorage[u].selectedRooms # <<>> /\ localStorage'[u].selectedRooms = <<>>
               => Inserts /\ NewRow.user_id = u ]_vars

\* An insert has failed: the cart is still in localStorage, no confirmation
\* record exists and the form is idle with its rooms and dates.
C12_Witness ==
    /\ lastOp.op = "onSubmit"
    /\ lastOp.toast = "Error al crear la reserva"
    /\ tblReservations = <<>>
    /\ localStorage["u2"].selectedRooms # <<>>
    /\ Len(localStorage["u2"].selectedRooms[1]) = 2
    /\ localStorage["u2"].currentReservation = <<>>
    /\ ~form["u2"].submitting
    /\ form["u2"].rooms = localStorage["u2"].selectedRooms[1]

\* The rows user_roles holds for uid.
RoleRows(uid) == {r \in tblUserRoles : r.user_id = uid}

\* C13: a role lookup that fails (an error, no row, more than one row) leaves
\* the hook with role 'cliente', isAdmin false and loading false.
C13_FailedLookupIsCliente ==
    [][ \A t \in Users :
          lastOp'.op = "fetchRole" /\ lastOp'.caller = t
            => LET uid == CHOOSE x \in roleHook[t].pending : x \notin roleHook'[t].pending
               IN  Cardinality(RoleRows(uid)) # 1 \/ lastOp'.toast = "Error fetching user role"
                     => /\ roleHook'[t].role = <<"cliente">>
                        /\ ~HookIsAdmin(roleHook'[t])
                        /\ ~roleHook'[t].loading ]_vars

\* The lookup of u3, who has the rows admin and cliente, has failed and the
\* hook shows 'cliente'.
C13_Witness ==
    /\ lastOp.op = "fetchRole"
    /\ lastOp.toast = "Error fetching user role"
    /\ RoleRows("u3") = {[user_id |-> "u3", role |-> "admin"], [user_id |-> "u3", role |-> "cliente"]}
    /\ roleHook["u3"].userId = <<"u3">>
    /\ roleHook["u3"].pending = {}
    /\ roleHook["u3"].role = <<"cliente">>

\* C14: each user has at most one row in user_roles.
C14_AtMostOneRolePerUser ==
    \A u \in Users : Cardinality(RoleRows(u)) <= 1

\* The step reads reservations into u's page: a page that lists them is
\* mounted, or a handler of u refetches after its update.
ReadsReservations(u) ==
    \/ reservations'[u] # reservations[u]
    \/ loc'[u] # loc[u] /\ loc'[u] \in {"my-reservations", "admin/reservations"}
    \/ /\ lastOp'.caller = u
       /\ lastOp'.op \in {"updateReservationStatus", "handleCancelReservation"}
       /\ lastOp'.sent
       /\ lastOp'.toast \notin ErrorToasts

\* C15: a read of reservations by a caller without the admin role returns
\* only the caller's own rows; the read of Admin Reservations by a caller
\* with the admin role returns every row.
C15_ReservationReads ==
    [][ \A u \in Users :
          ReadsReservations(u)
            => /\ ~has_role(u, "admin") => \A r \in reservations'[u] : r.user_id = u
               /\ has_role(u, "admin") /\ loc'[u] = "admin/reservations"
                    => {r.id : r \in reservations'[u]} = 1..Len(tblReservations') ]_vars

\* u2, who opened Admin Reservations as admin and has lost the role since,
\* pressed a status button on u1's reservation: the refetch returned nothing.
C15_Witness ==
    /\ lastOp.op = "updateReservationStatus"
    /\ lastOp.caller = "u2"
    /\ lastOp.toast \notin ErrorToasts
    /\ ~has_role("u2", "admin")
    /\ loc["u2"] = "admin/reservations"
    /\ Len(tblReservations) = 1
    /\ tblReservations[1].user_id = "u1"
    /\ reservations["u2"] = {}

\* C16: a reservation is persisted with the user_id of the caller whose
\* request inserted it; an insert naming another user is refused and the
\* table stays as it is.
C16_OwnerIsCaller ==
    [][ /\ Inserts => NewRow.user_id = lastOp'.caller
        /\ lastOp'.op = "insertReservation" /\ lastOp'.room[1].user_id # lastOp'.caller
             => /\ tblReservations' = tblReservations
                /\ lastOp'.toast = "Error al crear la reserva" ]_vars

\* u1's request to insert a reservation owned by u2 was refused.
C16_Witness ==
    /\ lastOp.op = "insertReservation"
    /\ lastOp.caller = "u1"
    /\ lastOp.room[1].user_id = "u2"
    /\ lastOp.toast = "Error al crear la reserva"
    /\ tblReservations = <<>>

RoomOps == {"handleSubmit", "handleDelete"}

\* C17: the rooms table changes only in a step of the room editor run by a
\* caller who holds the admin role at that time; the editor's create, update
\* and delete by a caller without the role leave the table as it is.
C17_RoomWritesByAdminOnly ==
    [][ /\ tblRooms' # tblRooms
             => lastOp'.op \in RoomOps /\ has_role(lastOp'.caller, "admin")
        /\ lastOp'.op \in RoomOps /\ ~has_role(lastOp'.caller, "admin")
             => tblRooms' = tblRooms ]_vars

\* u2, demoted while the room editor was open, has deleted a room: the
\* editor reports success and the room is still there.
C17_Witness ==
    /\ lastOp.op = "handleDelete"
    /\ lastOp.caller = "u2"
    /\ lastOp.toast = "Habitacion eliminada"
    /\ ~has_role("u2", "admin")
    /\ loc["u2"] = "admin/rooms"
    /\ \E row \in tblRooms : row.id = "r1"

\* C18: after sign-up, the rows of user_roles change only in a step of
\* updateUserRole run by a caller who holds the admin role at that time;
\* sign-up adds the new account's 'cliente' row and nothing else.
C18_RoleWritesByAdminOnly ==
    [][ tblUserRoles' # tblUserRoles
          => IF authUsers' # authUsers
             THEN \E u \in Users \ authUsers :
                     /\ authUsers' = authUsers \cup {u}
                     /\ tblUserRoles' = tblUserRoles \cup {[user_id |-> u, role |-> "cliente"]}
             ELSE /\ lastOp'.op = "updateUserRole"
                  /\ has_role(lastOp'.caller, "admin") ]_vars

\* u2 lost the role while on Admin Users and has since run the delete of
\* updateUserRole: no error, and the target's row is still there.
C18_Witness ==
    /\ lastOp.op = "updateUserRole"
    /\ lastOp.caller = "u2"
    /\ lastOp.toast = ""
    /\ ~has_role("u2", "admin")
    /\ roleCall["u2"] # <<>>
    /\ RoleRows(roleCall["u2"][1].user_id) # {}

\* C19: every room in the rooms table has capacity >= 1 and price >= 0.
C19_RoomCapacityAndPrice ==
    \A row \in tblRooms : row.capacity >= 1 /\ row.price >= 0

\* C20: every reservation in the table has guests >= 1.
C20_GuestsPositive ==
    \A i \in 1..Len(tblReservations) : tblReservations[i].guests >= 1

\* Reservations i and j share a room and some night.
Overlapping(i, j) ==
    /\ \E a \in 1..Len(tblReservations[i].room_ids), b \in 1..Len(tblReservations[j].room_ids) :
          tblReservations[i].room_ids[a] = tblReservations[j].room_ids[b]
    /\ tblReservations[i].check_in < tblReservations[j].check_out
    /\ tblReservations[j].check_in < tblReservations[i].check_out

\* C21: whether onSubmit sends its insert depends on its own form only
\* (dates, guests, the cart's capacities), whatever reservations are stored;
\* an insert adds a pending row and leaves the stored rows as they are.
C21_NoOverlapCheck ==
    [][ /\ \A u \in Users :
              SubmitClick(u)
                => LET f == form[u]
                   IN  InsertSent(u) <=> /\ f.checkIn # NoDate /\ f.checkOut # NoDate
                                         /\ f.checkOut > f.checkIn
                                         /\ f.guests <= CapacitySum(f.rooms)
        /\ Inserts => /\ NewRow.status = "pending"
                      /\ \A i \in 1..Len(tblReservations) : tblReservations'[i] = tblReservations[i] ]_vars

\* Two reservations of room r1, by u1 and by u2, on overlapping days, both
\* pending.
C21_Witness ==
    /\ Len(tblReservations) = 2
    /\ tblReservations[1].user_id # tblReservations[2].user_id
    /\ tblReservations[1].check_in # tblReservations[2].check_in
    /\ Overlapping(1, 2)
    /\ tblReservations[1].status = "pending"
    /\ tblReservations[2].status = "pending"

\* C22: in every tab, while the lookup for the userId the hook was last
\* given is awaited, the hook's loading flag is true.
C22_LoadingWhileLookupPending ==
    \A t \in Users :
        LET h == roleHook[t]
        IN  (h.ran /\ h.userId # <<>> /\ h.userId[1] \in h.pending) => h.loading

\* Tab t shows an admin page and the browser's session is u's, who holds no
\* admin role.
NonAdminOnAdminPage(t, u) ==
    /\ tab[t].page \in AdminPages
    /\ tab[t].client = <<u>>
    /\ ~has_role(u, "admin")

C24_AdminNeverRedirected ==
    [][ \A t \in Users, u \in Users :
          ( /\ tab[t].page \in TimerPages
            /\ tab[t].client = <<u>> /\ tab[t].user = <<u>>
            /\ has_role(u, "admin")
            /\ roleHook[t].role # <<"cliente">> )
          => tab'[t].page # "dashboard" ]_vars

\* C25: a call of updateUserRole that ends, with or without an error,
\* leaves its target with exactly one role row.
C25_RoleChangeAllOrNothing ==
    [][ \A a \in Users :
          (roleCall[a] # <<>> /\ roleCall'[a] = <<>>)
            => Cardinality({ r \in tblUserRoles' : r.user_id = roleCall[a][1].user_id }) = 1 ]_vars

\* C26: whatever role changes the admins make from Admin Users, in whatever
\* interleaving, some user holds the admin role.
C26_AnAdminRemains == \E u \in Users : has_role(u, "admin")

\* The first admin has been demoted by the one it promoted, and has a role
\* change of its own still between its delete and its insert.
C26_Witness ==
    /\ ~has_role("u1", "admin")
    /\ has_role("u2", "admin")
    /\ roleCall["u1"] # <<>>

C28_LatestAuthEventWins ==
    \A t \in Users :
        (tab[t].page \in AdminPages /\ tab[t].getSession = "done" /\ tab[t].events = <<>>)
            => tab[t].user = tab[t].client

\* C29: once no lookup is awaited, the role useUserRole exposes is null
\* without a userId and otherwise what a lookup for the current userId
\* gives: the stored role, or 'cliente' after a failed lookup.
C29_RoleOfCurrentUserId ==
    \A t \in Users :
        LET h == roleHook[t]
        IN  (h.ran /\ h.pending = {})
              => IF h.userId = <<>> THEN h.role = <<>>
                 ELSE h.role \in {<<FetchRole(h.userId[1])>>, <<"cliente">>}

\* C30: every room id stored in a reservation's room_ids is the id of a row
\* of the rooms table.
C30_RoomIdsReferToRooms ==
    \A i \in 1..Len(tblReservations) :
        \A j \in 1..Len(tblReservations[i].room_ids) :
            \E row \in tblRooms : row.id = tblReservations[i].room_ids[j]

====
